---- MODULE Spec2Model ----
(***************************************************************************)
(* A model of the authoritative DNS server of this repository: the wire    *)
(* decoder (src/src/parser.rs), the encoder (src/src/record.rs) and the    *)
(* per-datagram handler with its zone lookup (src/src/main.rs).            *)
(*                                                                         *)
(* Bytes are integers 0..255, byte strings are sequences of bytes, a Rust  *)
(* String is the sequence of its UTF-8 bytes, a name is a sequence of      *)
(* labels, and Option<T> is the empty sequence (None) or <<v>> (Some(v)).  *)
(***************************************************************************)
EXTENDS Integers, Sequences, FiniteSets, TLC

VARIABLES
    storage,        \* RecordStorage.base: name -> sequence of records
    buf,            \* the datagram handed to handle()
    pc,             \* position of handle()
    parsed,         \* handle(): let parsed, None before the datagram is decoded
    segs,           \* handle(): the owned labels of the question's name
    scope,          \* handle(): let mut scope
    answers,        \* handle(): let mut answers
    sent,           \* the datagrams handed to socket.send_to, in order
    name,           \* codec: the name given to serialize_name
    wire,           \* codec: the bytes serialize_name wrote
    decoded,        \* codec: the result of parse_name on wire
    cpc             \* codec: position of the encode/decode run

vars == <<storage, buf, pc, parsed, segs, scope, answers, sent, name, wire, decoded, cpc>>

handlerVars == <<storage, buf, pc, parsed, segs, scope, answers, sent>>

codecVars == <<name, wire, decoded, cpc>>

----------------------------------------------------------------------------
(* Byte-level helpers                                                      *)

RECURSIVE Flatten(_)
Flatten(ss) == IF ss = <<>> THEN <<>> ELSE Head(ss) \o Flatten(Tail(ss))

Fill(n, b) == [i \in 1..n |-> b]

\* u16::to_be_bytes of a value already cast to u16
u16_to_be_bytes(x) == <<(x % 65536) \div 256, x % 256>>

\* u32::to_be_bytes
u32_to_be_bytes(x) ==
    <<(x \div 16777216) % 256, (x \div 65536) % 256, (x \div 256) % 256, x % 256>>

\* u16::from_be_bytes
u16_from_be_bytes(hi, lo) == hi * 256 + lo

----------------------------------------------------------------------------
(* parser.rs: the record types                                             *)

Types == {"A", "NS", "CNAME", "SOA", "PTR", "MX", "TXT", "AAAA", "OPT", "AXFR", "ANY"}

\* `ty as u16`
TypeCode(ty) ==
    CASE ty = "A" -> 1
      [] ty = "NS" -> 2
      [] ty = "CNAME" -> 5
      [] ty = "SOA" -> 6
      [] ty = "PTR" -> 12
      [] ty = "MX" -> 15
      [] ty = "TXT" -> 16
      [] ty = "AAAA" -> 28
      [] ty = "OPT" -> 41
      [] ty = "AXFR" -> 252
      [] ty = "ANY" -> 255

need_recursive_all(ty) == TRUE

need_recursive(ty) == ty \in {"NS", "SOA"}

OpCodes == {0, 1, 2}

----------------------------------------------------------------------------
(* parser.rs: the decoder.  A parser takes the input and the index of the  *)
(* next unread byte and returns [ok, pos, val]; pos is the index after the *)
(* consumed bytes.                                                         *)

Fail == [ok |-> FALSE, pos |-> 0, val |-> <<>>]

Ok(p, v) == [ok |-> TRUE, pos |-> p, val |-> v]

Avail(input, p, n) == p + n - 1 <= Len(input)

\* {e(x) : x \in {v}} evaluates v once and names its value x; The picks the result
The(S) == CHOOSE x \in S : TRUE

be_u16(input, p) ==
    IF Avail(input, p, 2)
    THEN Ok(p + 2, u16_from_be_bytes(input[p], input[p + 1]))
    ELSE Fail

be_u32(input, p) ==
    IF Avail(input, p, 4)
    THEN Ok(p + 4, ((input[p] * 256 + input[p + 1]) * 256 + input[p + 2]) * 256 + input[p + 3])
    ELSE Fail

parse_header_status_anyop(input, p) ==
    IF ~Avail(input, p, 2) THEN Fail
    ELSE LET b1 == input[p]
             b2 == input[p + 1]
         IN  IF (b1 \div 2) % 4 # 0 \/ b2 \div 64 # 0 \/ b2 % 16 # 0 THEN Fail
             ELSE Ok(p + 2, [qr |-> b1 \div 128 # 0, opcode |-> (b1 \div 8) % 16,
                             rd |-> b1 % 2 # 0, ad |-> (b2 \div 32) % 2 # 0,
                             cd |-> (b2 \div 16) % 2 # 0])

\* QR(1) OPCODE(4) AA+TC(2, zero) RD(1) | RA+Z(2, zero) AD(1) CD(1) RCODE(4, zero)
parse_header_status(input, p) ==
    IF ~Avail(input, p, 2) THEN Fail
    ELSE LET b1 == input[p]
             b2 == input[p + 1]
             opcode_raw == (b1 \div 8) % 16
         IN  IF (b1 \div 2) % 4 # 0 \/ b2 \div 64 # 0 \/ b2 % 16 # 0 THEN Fail
             ELSE IF opcode_raw \notin OpCodes THEN Fail
             ELSE Ok(p + 2, [qr |-> b1 \div 128 # 0, opcode |-> opcode_raw,
                             rd |-> b1 % 2 # 0, ad |-> (b2 \div 32) % 2 # 0,
                             cd |-> (b2 \div 16) % 2 # 0])

parse_header(input, p) ==
    LET id == be_u16(input, p)
        status == parse_header_status(input, p + 2)
        qdcnt == be_u16(input, p + 4)
        zeros == Avail(input, p + 6, 4) /\ \A i \in 0..3 : input[p + 6 + i] = 0
        arcnt == be_u16(input, p + 10)
    IN  IF id.ok /\ status.ok /\ qdcnt.ok /\ zeros /\ arcnt.ok
        THEN Ok(p + 12, [id |-> id.val, status |-> status.val,
                         qdcnt |-> qdcnt.val, arcnt |-> arcnt.val])
        ELSE Fail

\* the slow path of String::from_utf8_lossy on the bytes the model draws: ASCII bytes
\* are kept, and a byte 0xF8..0xFF, which no UTF-8 sequence holds, becomes U+FFFD
RECURSIVE lossy_replace(_)
lossy_replace(slice) ==
    IF slice = <<>> THEN <<>>
    ELSE (IF Head(slice) >= 248 THEN <<239, 191, 189>> ELSE <<Head(slice)>>)
         \o lossy_replace(Tail(slice))

\* String::from_utf8_lossy: valid input is borrowed as it is
from_utf8_lossy(slice) ==
    IF \A i \in 1..Len(slice) : slice[i] < 128 THEN slice ELSE lossy_replace(slice)

parse_label(input, p) ==
    IF ~Avail(input, p, 1) THEN Fail
    ELSE LET cnt == input[p]
         IN  IF Avail(input, p + 1, cnt)
             THEN Ok(p + 1 + cnt, from_utf8_lossy(SubSeq(input, p + 1, p + cnt)))
             ELSE Fail

parse_ptr(input, p) ==
    IF Avail(input, p, 1) /\ input[p] = 0 THEN Ok(p + 1, <<>>)
    ELSE IF Avail(input, p, 2) /\ input[p] \div 64 = 3
         THEN Ok(p + 2, <<u16_from_be_bytes(input[p], input[p + 1])>>)
         ELSE Fail

\* many_till(parse_label, parse_ptr): the terminator is tried first at every position
RECURSIVE many_till_label_ptr(_, _, _)
many_till_label_ptr(input, p, labels) ==
    LET g == parse_ptr(input, p)
    IN  IF g.ok THEN Ok(g.pos, [labels |-> labels, ptr |-> g.val])
        ELSE LET f == parse_label(input, p)
             IN  IF ~f.ok \/ f.pos = p THEN Fail
                 ELSE many_till_label_ptr(input, f.pos, Append(labels, f.val))

parse_name(input, p) == many_till_label_ptr(input, p, <<>>)

\* Type::parse: be_u16, then the closed enumeration
Type_parse(input, p) ==
    LET c == be_u16(input, p)
    IN  IF c.ok /\ \E ty \in Types : TypeCode(ty) = c.val
        THEN Ok(c.pos, CHOOSE ty \in Types : TypeCode(ty) = c.val)
        ELSE Fail

parse_question(input, p) ==
    The({IF ~n.ok THEN Fail
         ELSE LET ty == Type_parse(input, n.pos)
                  cls == be_u16(input, n.pos + 2)
              IN  IF ~ty.ok \/ ~cls.ok THEN Fail
                  ELSE Ok(cls.pos, [name |-> n.val, ty |-> ty.val])
         : n \in {parse_name(input, p)}})

parse_rr(input, p) ==
    The({IF ~n.ok THEN Fail
         ELSE LET ty == Type_parse(input, n.pos)
                  cls == be_u16(input, n.pos + 2)
                  ttl == be_u32(input, n.pos + 4)
                  rdlen == be_u16(input, n.pos + 8)
              IN  IF ~(ty.ok /\ cls.ok /\ ttl.ok /\ rdlen.ok) THEN Fail
                  ELSE IF ~Avail(input, rdlen.pos, rdlen.val) THEN Fail
                  ELSE Ok(rdlen.pos + rdlen.val,
                          [name |-> n.val, ty |-> ty.val, ttl |-> ttl.val,
                           rdata |-> SubSeq(input, rdlen.pos, rdlen.pos + rdlen.val - 1)])
         : n \in {parse_name(input, p)}})

\* count(parse_question, n)
RECURSIVE count_question(_, _, _, _)
count_question(input, p, n, acc) ==
    IF n = 0 THEN Ok(p, acc)
    ELSE The({IF ~q.ok THEN Fail
              ELSE The({count_question(input, pos, n - 1, more) :
                           pos \in {q.pos}, more \in {Append(acc, q.val)}})
              : q \in {parse_question(input, p)}})

\* count(parse_rr, n)
RECURSIVE count_rr(_, _, _, _)
count_rr(input, p, n, acc) ==
    IF n = 0 THEN Ok(p, acc)
    ELSE The({IF ~r.ok THEN Fail
              ELSE The({count_rr(input, pos, n - 1, more) :
                           pos \in {r.pos}, more \in {Append(acc, r.val)}})
              : r \in {parse_rr(input, p)}})

parse_request(input, p) ==
    The({IF ~hdr.ok THEN Fail
         ELSE The({IF ~questions.ok THEN Fail
                   ELSE The({IF ~additionals.ok THEN Fail
                             ELSE Ok(additionals.pos,
                                     [header |-> hdr.val, questions |-> questions.val,
                                      additionals |-> additionals.val])
                             : additionals \in
                                 {count_rr(input, questions.pos, hdr.val.arcnt, <<>>)}})
                   : questions \in {count_question(input, hdr.pos, hdr.val.qdcnt, <<>>)}})
         : hdr \in {parse_header(input, p)}})

\* tuple((parse_request, eof))
parse(input) ==
    The({IF res.ok /\ res.pos = Len(input) + 1 THEN res ELSE Fail
         : res \in {parse_request(input, 1)}})

----------------------------------------------------------------------------
(* record.rs: records and the encoder                                      *)

RecordInner_ty(inner) == inner.type

serialize_name_noterm(labs) ==
    Flatten([i \in 1..Len(labs) |-> <<Len(labs[i]) % 256>> \o labs[i]])

\* one length byte (`seg.len() as u8`) and the bytes of each label, then a zero byte
serialize_name(labs) ==
    Flatten([i \in 1..Len(labs) |-> <<Len(labs[i]) % 256>> \o labs[i]]) \o <<0>>

RecordInner_serialize(inner) ==
    CASE inner.type = "SOA" ->
             serialize_name(inner.mname) \o serialize_name(inner.rname)
             \o u32_to_be_bytes(inner.serial) \o u32_to_be_bytes(inner.refresh)
             \o u32_to_be_bytes(inner.retry) \o u32_to_be_bytes(inner.expire)
             \o u32_to_be_bytes(inner.minimum)
      [] inner.type = "NS" -> serialize_name(inner.ns)
      [] inner.type = "A" -> inner.addr
      [] inner.type = "AAAA" -> inner.addr
      [] inner.type = "CNAME" -> serialize_name(inner.to)
      [] inner.type = "TXT" -> inner.content

\* TYPE, CLASS (IN), TTL, RDLENGTH (`rdata.len() as u16`), RDATA
Record_serialize(rec) ==
    LET rdata == RecordInner_serialize(rec.inner)
    IN  u16_to_be_bytes(TypeCode(RecordInner_ty(rec.inner))) \o <<0, 1>>
        \o u32_to_be_bytes(rec.ttl) \o u16_to_be_bytes(Len(rdata) % 65536) \o rdata

----------------------------------------------------------------------------
(* main.rs: RecordStorage                                                  *)

query_all(base, labels) ==
    IF labels \in DOMAIN base THEN base[labels] ELSE <<>>

\* RecordStorage::query, with the number of query_all calls made so far
RECURSIVE query_walk(_, _, _, _)
query_walk(base, labels, ty, calls) ==
    LET collected ==
            SelectSeq(query_all(base, labels), LAMBDA item : RecordInner_ty(item.inner) = ty)
    IN  IF Len(collected) = 0 /\ need_recursive(ty) /\ Len(labels) > 1
        THEN query_walk(base, Tail(labels), ty, calls + 1)
        ELSE [scope |-> labels, answers |-> collected, calls |-> calls]

query(base, labels, ty) ==
    LET r == query_walk(base, labels, ty, 1)
    IN  [scope |-> r.scope, answers |-> r.answers]

----------------------------------------------------------------------------
(* main.rs: the response header and the steps of handle()                  *)

Rcode(rcode) ==
    CASE rcode = "OK" -> 0
      [] rcode = "Format" -> 1
      [] rcode = "Internal" -> 2
      [] rcode = "Name" -> 3
      [] rcode = "NotImpl" -> 4
      [] rcode = "Refused" -> 5

Bit(b) == IF b THEN 1 ELSE 0

write_resp_header(id, rcode, is_aa, req_status, cnts) ==
    u16_to_be_bytes(id)
    \o <<128 + req_status.opcode * 8 + Bit(is_aa) * 4 + Bit(req_status.rd), Rcode(rcode)>>
    \o Flatten([i \in 1..4 |-> u16_to_be_bytes(cnts[i])])

\* the Err arm of the match on parser::parse: the datagrams it sends
malformed_reply(input) ==
    IF Len(input) < 4 THEN <<>>
    ELSE LET id == u16_from_be_bytes(input[1], input[2])
             hdr_status == parse_header_status(input, 3)
         IN  IF ~hdr_status.ok THEN <<>>
             ELSE <<write_resp_header(id, "Format", TRUE, hdr_status.val, <<0, 0, 0, 0>>)>>

not_impl_reply_noaa(req) ==
    write_resp_header(req.header.id, "NotImpl", FALSE, req.header.status,
                      <<0, 0, 0, 0>>)

\* the reply of both "Unimplemented" branches
not_impl_reply(req) ==
    write_resp_header(req.header.id, "NotImpl", TRUE, req.header.status,
                      <<0, 0, 0, 0>>)

check_self_cname_ns(base, labels, ty, cur) ==
    IF Len(cur.answers) = 0 /\ ty # "CNAME"
    THEN query(base, labels, "CNAME")
    ELSE cur

\* "Check self CNAME"
check_self_cname(base, labels, ty, cur) ==
    IF Len(cur.answers) = 0 /\ ty # "CNAME" /\ ty # "NS"
    THEN query(base, labels, "CNAME")
    ELSE cur

check_nearer_ns_ge(base, labels, ty, cur) ==
    IF Len(cur.answers) > 0 /\ need_recursive(ty) /\ ty # "NS"
    THEN LET ns == query(base, labels, "NS")
         IN  IF Len(ns.scope) >= Len(cur.scope) THEN ns ELSE cur
    ELSE cur

check_nearer_ns_lt(base, labels, ty, cur) ==
    IF Len(cur.answers) > 0 /\ need_recursive(ty) /\ ty # "NS"
    THEN LET ns == query(base, labels, "NS")
         IN  IF Len(ns.scope) < Len(cur.scope) THEN ns ELSE cur
    ELSE cur

check_nearer_ns_always(base, labels, ty, cur) ==
    IF Len(cur.answers) > 0 /\ need_recursive(ty) /\ ty # "NS"
    THEN query(base, labels, "NS")
    ELSE cur

\* "For all recursive requests, additionally check is a nearer NS is present"
check_nearer_ns(base, labels, ty, cur) ==
    IF Len(cur.answers) > 0 /\ need_recursive(ty) /\ ty # "NS"
    THEN LET ns == query(base, labels, "NS")
         IN  IF Len(ns.scope) > Len(cur.scope) THEN ns ELSE cur
    ELSE cur

check_authoritative_exact(base, labels, ty, cur) ==
    IF Len(cur.answers) = 0 /\ ty # "NS"
    THEN [scope |-> labels,
          answers |-> SelectSeq(query_all(base, labels),
                                LAMBDA item : RecordInner_ty(item.inner) = "NS")]
    ELSE cur

\* "Finally, nothing is found. Check authoritative servers"
check_authoritative(base, labels, ty, cur) ==
    IF Len(cur.answers) = 0 /\ ty # "NS"
    THEN query(base, labels, "NS")
    ELSE cur

response_answer_only(req, cur) ==
    write_resp_header(req.header.id,
                      IF Len(cur.answers) > 0 THEN "OK" ELSE "Name",
                      TRUE, req.header.status,
                      <<0, Len(cur.answers) % 65536, 0, 0>>)
    \o Flatten([i \in 1..Len(cur.answers) |->
                   serialize_name(cur.scope) \o Record_serialize(cur.answers[i])])

\* the classification, the header and the records of the reply
response(req, cur) ==
    LET rcode == IF Len(cur.answers) > 0 THEN "OK" ELSE "Name"
        is_ns == Len(cur.answers) > 0 /\ RecordInner_ty(cur.answers[1].inner) = "NS"
    IN  write_resp_header(req.header.id, rcode, ~is_ns, req.header.status,
                          <<0,
                            IF is_ns THEN 0 ELSE Len(cur.answers) % 65536,
                            IF ~is_ns THEN 0 ELSE Len(cur.answers) % 65536,
                            0>>)
        \o Flatten([i \in 1..Len(cur.answers) |->
                       serialize_name(cur.scope) \o Record_serialize(cur.answers[i])])

----------------------------------------------------------------------------
(* The inputs: zones, datagrams and names                                  *)

\* the number of labels of the longest name of the zone
MaxDepth == 4

\* the largest question count of a datagram
MaxQuestions == 2

\* the largest number of labels of a name given to serialize_name
MaxNameLabels == 2

\* the labels of the zone's names, most specific first: "a", "b", ..., "com"
Label(i) == IF i = MaxDepth THEN <<99, 111, 109>> ELSE <<96 + i>>

Chain == [i \in 1..MaxDepth |-> Label(i)]

\* the suffix of Chain with n labels
Suffix(n) == SubSeq(Chain, MaxDepth - n + 1, MaxDepth)

ZoneNames == {Suffix(n) : n \in 1..MaxDepth}

\* "x" in front of a name of the zone: a sibling that holds no record
Sibling(n) == <<(<<120>>)>> \o Suffix(n)

\* the queried names: the root, the names of the zone, a sibling
QueryNames == {Suffix(n) : n \in 0..MaxDepth} \cup {Sibling(1)}

NsHost(b) == <<(<<110, 115, b>>), (<<99, 111, 109>>)>>

NS1 == [inner |-> [type |-> "NS", ns |-> NsHost(49)], ttl |-> 300]

NS2 == [inner |-> [type |-> "NS", ns |-> NsHost(50)], ttl |-> 300]

SOA1 == [inner |-> [type |-> "SOA", serial |-> 7, mname |-> NsHost(49),
                    rname |-> <<(<<114>>)>>, refresh |-> 3600, retry |-> 600,
                    expire |-> 86400, minimum |-> 60],
         ttl |-> 3600]

A1 == [inner |-> [type |-> "A", addr |-> <<10, 0, 0, 1>>], ttl |-> 60]

CNAME1 == [inner |-> [type |-> "CNAME", to |-> <<(<<98, 97, 114>>), (<<99, 111, 109>>)>>],
           ttl |-> 60]

\* the record lists a name of the zone may hold (the empty list: the name is no key)
RecordLists ==
    {<<>>, <<NS1, NS2>>, <<SOA1>>, <<SOA1, NS1>>, <<CNAME1, NS1>>, <<A1, CNAME1>>}

Zone(f) == [n \in {m \in DOMAIN f : f[m] # <<>>} |-> f[n]]

Zones == {Zone(f) : f \in [ZoneNames -> RecordLists]}

NoZone == Zone([n \in ZoneNames |-> <<>>])

SampleZones ==
    {NoZone,
     Zone([n \in ZoneNames |-> IF n = Suffix(1) THEN <<SOA1, NS1>> ELSE <<>>]),
     Zone([n \in ZoneNames |-> IF n = Suffix(1) THEN <<A1, CNAME1>> ELSE <<>>])}

QuestionTypes == {"A", "NS", "CNAME", "SOA"}

Header(id, f1, f2, qd, an, ns, ar) ==
    u16_to_be_bytes(id) \o <<f1, f2>> \o u16_to_be_bytes(qd) \o u16_to_be_bytes(an)
    \o u16_to_be_bytes(ns) \o u16_to_be_bytes(ar)

QuestionBytes(labels, ty) == serialize_name(labels) \o u16_to_be_bytes(TypeCode(ty)) \o <<0, 1>>

\* the id of the queries, 0x1234
QueryId == 18 * 256 + 52

\* a well-formed query with one question
Query(labels, ty) == Header(QueryId, 1, 0, 1, 0, 0, 0) \o QuestionBytes(labels, ty)

\* an EDNS0 OPT pseudo-record with n bytes of rdata
OptRR(n) == <<0>> \o u16_to_be_bytes(TypeCode("OPT")) \o <<16, 0>> \o u32_to_be_bytes(0)
            \o u16_to_be_bytes(n) \o Fill(n, 7)

\* a question whose name is a label and a compression pointer
PtrQuestion == <<1, 97, 192, 12>> \o u16_to_be_bytes(TypeCode("A")) \o <<0, 1>>

\* n copies of a question
RECURSIVE Repeat(_, _)
Repeat(q, n) == IF n = 0 THEN <<>> ELSE q \o Repeat(q, n - 1)

\* datagrams the decoder accepts, with 0..MaxQuestions questions, pointers, additionals
OddDatagrams ==
    {Header(QueryId, f1, 0, qd, 0, 0, 0) \o Repeat(q, qd) :
        f1 \in {0, 1, 8, 16}, qd \in 0..MaxQuestions,
        q \in {QuestionBytes(Suffix(1), "A"), QuestionBytes(Suffix(1), "NS"), PtrQuestion}}
    \cup {Header(QueryId, 1, f2, 1, 0, 0, 1) \o q \o OptRR(n) :
            f2 \in {0, 16, 32}, n \in {0, 2}, q \in {QuestionBytes(Suffix(1), "A"), PtrQuestion}}
    \cup {Header(QueryId, 1, 0, 0, 0, 0, 1) \o OptRR(0),
          Header(QueryId, 1, 0, 1, 0, 0, 0) \o <<192, 12>> \o <<0, 1, 0, 1>>,
          Header(QueryId, 1, 0, 1, 0, 0, 0) \o <<1, 255, 0>> \o <<0, 1, 0, 1>>}

Prefixes(d) == {SubSeq(d, 1, k) : k \in 0..Len(d)}

\* d with its two flag bytes replaced
WithFlags(d, f1, f2) == [d EXCEPT ![3] = f1, ![4] = f2]

FlagBytes1 == {0, 1, 2, 4, 8, 9, 16, 17, 24, 32, 64, 120, 128, 129, 144, 152}

FlagBytes2 == {0, 1, 15, 16, 32, 48, 64, 128}

DamageBase ==
    {Query(Suffix(1), "A"),
     Header(QueryId, 1, 0, 1, 0, 0, 1) \o QuestionBytes(Suffix(2), "SOA") \o OptRR(2),
     Header(QueryId, 0, 0, MaxQuestions, 0, 0, 0)
         \o Repeat(QuestionBytes(Suffix(1), "A"), MaxQuestions)}

\* datagrams the decoder rejects or nearly rejects: truncated, with trailing bytes,
\* with other flag bytes, with a non-zero ANCOUNT or NSCOUNT, with an unknown type
DamagedDatagrams ==
    UNION {Prefixes(d) : d \in DamageBase}
    \cup {d \o <<0>> : d \in DamageBase}
    \cup UNION {{SubSeq(WithFlags(d, f1, f2), 1, k) :
                    f1 \in FlagBytes1, f2 \in FlagBytes2, k \in {4, 12, Len(d)}} :
                 d \in DamageBase}
    \cup {Header(QueryId, 1, 0, 1, an, ns, 0) \o QuestionBytes(Suffix(1), "A") :
            an \in {0, 1, 256}, ns \in {0, 1}}
    \cup {Header(QueryId, 1, 0, 1, 0, 0, 0) \o serialize_name(Suffix(1)) \o <<0, c, 0, 1>> :
            c \in {1, 3, 255}}

\* the labels of the names given to serialize_name: each a run of one ASCII byte
LabelLengths == {0, 1, 2, 63, 64, 191, 192, 255}

CodecLabels == {Fill(n, 97) : n \in LabelLengths} \cup {<<119, 119, 119>>}

RECURSIVE SeqsUpTo(_, _)
SeqsUpTo(S, n) ==
    IF n = 0 THEN {<<>>}
    ELSE LET shorter == SeqsUpTo(S, n - 1)
         IN  shorter \cup {Append(q, x) : q \in shorter, x \in S}

CodecNames == SeqsUpTo(CodecLabels, MaxNameLabels)

----------------------------------------------------------------------------
(* The handler: one task spawned by main() for one datagram                *)

HandlerIdle ==
    /\ storage = NoZone
    /\ buf = <<>>
    /\ pc = "idle"
    /\ parsed = <<>>
    /\ segs = <<>>
    /\ scope = <<>>
    /\ answers = <<>>
    /\ sent = <<>>

CodecIdle ==
    /\ name = <<>>
    /\ wire = <<>>
    /\ decoded = Fail
    /\ cpc = "idle"

Init ==
    /\ \/ storage \in Zones /\ buf \in {Query(n, ty) : n \in QueryNames, ty \in QuestionTypes}
       \/ storage \in SampleZones /\ buf \in OddDatagrams \cup DamagedDatagrams
    /\ pc = "recv"
    /\ parsed = <<>>
    /\ segs = <<>>
    /\ scope = <<>>
    /\ answers = <<>>
    /\ sent = <<>>
    /\ CodecIdle

Cur == [scope |-> scope, answers |-> answers]

\* Err(e): at most one FormatError reply
HandleMalformed ==
    /\ pc = "recv"
    /\ ~parse(buf).ok
    /\ sent' = sent \o malformed_reply(buf)
    /\ pc' = "done"
    /\ UNCHANGED <<storage, buf, parsed, segs, scope, answers>>
    /\ UNCHANGED codecVars

\* parsed.questions.len() != 1
HandleQuestionCount ==
    /\ pc = "recv"
    /\ \E req \in {parse(buf)} :
          /\ req.ok
          /\ Len(req.val.questions) # 1
          /\ parsed' = <<req.val>>
          /\ sent' = Append(sent, not_impl_reply(req.val))
    /\ pc' = "done"
    /\ UNCHANGED <<storage, buf, segs, scope, answers>>
    /\ UNCHANGED codecVars

\* q.name.ptr.is_some()
HandlePtrInName ==
    /\ pc = "recv"
    /\ \E req \in {parse(buf)} :
          /\ req.ok
          /\ Len(req.val.questions) = 1
          /\ req.val.questions[1].name.ptr # <<>>
          /\ parsed' = <<req.val>>
          /\ sent' = Append(sent, not_impl_reply(req.val))
    /\ pc' = "done"
    /\ UNCHANGED <<storage, buf, segs, scope, answers>>
    /\ UNCHANGED codecVars

\* let (mut scope, mut answers) = storage.query(&segs, q.ty)
QueryRequested ==
    /\ pc = "recv"
    /\ \E req \in {parse(buf)} :
          /\ req.ok
          /\ Len(req.val.questions) = 1
          /\ req.val.questions[1].name.ptr = <<>>
          /\ parsed' = <<req.val>>
          /\ LET q == req.val.questions[1]
                 r == query(storage, q.name.labels, q.ty)
             IN  /\ segs' = q.name.labels
                 /\ scope' = r.scope
                 /\ answers' = r.answers
    /\ pc' = "self_cname"
    /\ UNCHANGED <<storage, buf, sent>>
    /\ UNCHANGED codecVars

\* q.ty
QTy == parsed[1].questions[1].ty

CheckSelfCname ==
    /\ pc = "self_cname"
    /\ LET r == check_self_cname(storage, segs, QTy, Cur)
       IN  scope' = r.scope /\ answers' = r.answers
    /\ pc' = "nearer_ns"
    /\ UNCHANGED <<storage, buf, parsed, segs, sent>>
    /\ UNCHANGED codecVars

CheckNearerNS ==
    /\ pc = "nearer_ns"
    /\ LET r == check_nearer_ns(storage, segs, QTy, Cur)
       IN  scope' = r.scope /\ answers' = r.answers
    /\ pc' = "authoritative"
    /\ UNCHANGED <<storage, buf, parsed, segs, sent>>
    /\ UNCHANGED codecVars

CheckAuthoritative ==
    /\ pc = "authoritative"
    /\ LET r == check_authoritative(storage, segs, QTy, Cur)
       IN  scope' = r.scope /\ answers' = r.answers
    /\ pc' = "respond"
    /\ UNCHANGED <<storage, buf, parsed, segs, sent>>
    /\ UNCHANGED codecVars

\* write_resp_header, the records, socket.send_to
Respond ==
    /\ pc = "respond"
    /\ sent' = Append(sent, response(parsed[1], Cur))
    /\ pc' = "done"
    /\ UNCHANGED <<storage, buf, parsed, segs, scope, answers>>
    /\ UNCHANGED codecVars

Next ==
    \/ HandleMalformed
    \/ HandleQuestionCount
    \/ HandlePtrInName
    \/ QueryRequested
    \/ CheckSelfCname
    \/ CheckNearerNS
    \/ CheckAuthoritative
    \/ Respond

Spec == Init /\ [][Next]_vars

----------------------------------------------------------------------------
(* The codec: serialize_name, then parse_name on what it wrote             *)

InitCodec ==
    /\ HandlerIdle
    /\ name \in CodecNames
    /\ wire = <<>>
    /\ decoded = Fail
    /\ cpc = "encode"

Encode ==
    /\ cpc = "encode"
    /\ wire' = serialize_name(name)
    /\ cpc' = "decode"
    /\ UNCHANGED <<name, decoded>>
    /\ UNCHANGED handlerVars

Decode ==
    /\ cpc = "decode"
    /\ decoded' = parse_name(wire, 1)
    /\ cpc' = "done"
    /\ UNCHANGED <<name, wire>>
    /\ UNCHANGED handlerVars

NextCodec == Encode \/ Decode

SpecCodec == InitCodec /\ [][NextCodec]_vars

----------------------------------------------------------------------------
(* What the claims speak of: the reply as it reads on the wire, and the    *)
(* zone read by name, without the handler's operators                      *)

Reply == sent[1]

ReplyId == <<Reply[1], Reply[2]>>

ReplyAA == (Reply[3] \div 4) % 2

ReplyRcode == Reply[4] % 16

\* k = 1..4: QDCOUNT, ANCOUNT, NSCOUNT, ARCOUNT
ReplyCount(k) == Reply[3 + 2 * k] * 256 + Reply[4 + 2 * k]

ReplyBody == SubSeq(Reply, 13, Len(Reply))

RcodeOK == 0

RcodeFormat == 1

RcodeName == 3

RcodeNotImpl == 4

\* the records of type ty stored under exactly the name n, in stored order
RecordsAt(n, ty) ==
    IF n \in DOMAIN storage
    THEN SelectSeq(storage[n], LAMBDA rec : rec.inner.type = ty)
    ELSE <<>>

\* the suffixes of a name that have at least one label
SuffixesOf(labels) == {SubSeq(labels, k, Len(labels)) : k \in 1..Len(labels)}

Holding(labels, ty) == {s \in SuffixesOf(labels) : RecordsAt(s, ty) # <<>>}

\* the longest suffix of labels that holds a record of type ty
Nearest(labels, ty) ==
    CHOOSE s \in Holding(labels, ty) : \A t \in Holding(labels, ty) : Len(t) <= Len(s)

\* the records recs as the reply carries them under the owner name
OnWire(owner, recs) ==
    Flatten([i \in 1..Len(recs) |-> serialize_name(owner) \o Record_serialize(recs[i])])

\* handle() ran the resolution: the request parsed, one question, no pointer
Resolved ==
    /\ pc = "done"
    /\ parsed # <<>>
    /\ Len(parsed[1].questions) = 1
    /\ parsed[1].questions[1].name.ptr = <<>>

\* the reply is a referral to the NS records stored under s
IsReferral(s) ==
    /\ Len(sent) = 1
    /\ ReplyRcode = RcodeOK
    /\ ReplyAA = 0
    /\ ReplyCount(2) = 0
    /\ ReplyCount(3) = Len(RecordsAt(s, "NS"))
    /\ ReplyBody = OnWire(s, RecordsAt(s, "NS"))

\* the reply is an authoritative answer of the records of type ty stored under s
IsAnswer(s, ty) ==
    /\ Len(sent) = 1
    /\ ReplyRcode = RcodeOK
    /\ ReplyAA = 1
    /\ ReplyCount(2) = Len(RecordsAt(s, ty))
    /\ ReplyCount(3) = 0
    /\ ReplyBody = OnWire(s, RecordsAt(s, ty))

IsNameError ==
    /\ Len(sent) = 1
    /\ ReplyRcode = RcodeName
    /\ ReplyAA = 1
    /\ \A k \in 1..4 : ReplyCount(k) = 0
    /\ ReplyBody = <<>>

----------------------------------------------------------------------------
(* The claims                                                              *)

\* C1: a resolved request gets one reply classified from the final answer set alone:
\* NameError if it is empty and OK otherwise; AA=0 exactly when it is non-empty and its
\* first record is an NS record, and then the record count is the authority count and
\* the answer count is 0; otherwise AA=1, the record count is the answer count and the
\* authority count is 0.
C1_Classification ==
    Resolved =>
        /\ Len(sent) = 1
        /\ ReplyRcode = (IF answers = <<>> THEN RcodeName ELSE RcodeOK)
        /\ (ReplyAA = 0) <=> (answers # <<>> /\ answers[1].inner.type = "NS")
        /\ IF ReplyAA = 0
           THEN ReplyCount(3) = Len(answers) /\ ReplyCount(2) = 0
           ELSE ReplyCount(2) = Len(answers) /\ ReplyCount(3) = 0
        /\ (answers = <<>> => ReplyAA = 1 /\ \A k \in 1..4 : ReplyCount(k) = 0)

\* a referral of two NS records has been sent
C1_Witness ==
    /\ Resolved
    /\ Len(answers) = 2
    /\ answers[1].inner.type = "NS"
    /\ ReplyAA = 0
    /\ ReplyCount(3) = 2

\* C2 as claimed: a query of a type other than NS on a name that holds no record of
\* that type and no CNAME, when some suffix of the name holds NS records, is answered
\* by a referral to the NS records of the nearest such suffix.
C2_ReferralForEveryType ==
    (/\ Resolved
     /\ QTy # "NS"
     /\ RecordsAt(segs, QTy) = <<>>
     /\ RecordsAt(segs, "CNAME") = <<>>
     /\ Holding(segs, "NS") # {})
    => IsReferral(Nearest(segs, "NS"))

\* C2, amended: the same, provided that for an SOA query no suffix with at least as
\* many labels as the nearest suffix holding NS records holds an SOA record.
C2_Referral ==
    (/\ Resolved
     /\ QTy # "NS"
     /\ RecordsAt(segs, QTy) = <<>>
     /\ RecordsAt(segs, "CNAME") = <<>>
     /\ Holding(segs, "NS") # {}
     /\ QTy = "SOA" =>
            \A s \in Holding(segs, "SOA") : Len(s) < Len(Nearest(segs, "NS")))
    => IsReferral(Nearest(segs, "NS"))

\* an A query on a name without records, two labels below the NS records, was referred
C2_Witness ==
    /\ Resolved
    /\ QTy = "A"
    /\ segs \notin DOMAIN storage
    /\ Holding(segs, "NS") # {}
    /\ Len(Nearest(segs, "NS")) = Len(segs) - 2
    /\ IsReferral(Nearest(segs, "NS"))

\* the first lookup of step 1 finds nothing: no suffix holds the type for NS and SOA,
\* the exact name does not hold it for every other type
FirstLookupEmpty ==
    IF QTy \in {"NS", "SOA"}
    THEN Holding(segs, QTy) = {}
    ELSE RecordsAt(segs, QTy) = <<>>

\* C3: for a type other than CNAME and NS, when the first lookup finds nothing and the
\* exact name holds CNAME records, the reply carries exactly those records as an
\* authoritative answer (OK, AA=1, the count in the answer section); for NS no CNAME
\* retry is made, so an NS query with no NS record at any suffix is a NameError even
\* when the name holds a CNAME, and a CNAME query is answered from the first lookup.
C3_CnameFallback ==
    Resolved =>
        /\ (QTy \notin {"CNAME", "NS"} /\ FirstLookupEmpty /\ RecordsAt(segs, "CNAME") # <<>>)
               => IsAnswer(segs, "CNAME")
        /\ (QTy = "NS" /\ Holding(segs, "NS") = {}) => IsNameError
        /\ (QTy = "CNAME" /\ RecordsAt(segs, "CNAME") # <<>>) => IsAnswer(segs, "CNAME")

\* an A query was answered by the CNAME of a name that also holds an NS record
C3_Witness ==
    /\ Resolved
    /\ QTy = "A"
    /\ RecordsAt(segs, "A") = <<>>
    /\ RecordsAt(segs, "CNAME") # <<>>
    /\ RecordsAt(segs, "NS") # <<>>
    /\ IsAnswer(segs, "CNAME")

\* the case of C4: an SOA query whose ancestor fallback matches an SOA record at a
\* suffix and NS records at the parent of that suffix
NestedZones ==
    /\ Resolved
    /\ QTy = "SOA"
    /\ Holding(segs, "SOA") # {}
    /\ Holding(segs, "NS") # {}
    /\ Nearest(segs, "NS") = Tail(Nearest(segs, "SOA"))

\* C4 as claimed: with an SOA record at a.b.example.com and NS records at
\* b.example.com, an SOA query that matches both is answered by the NS records as a
\* referral.
C4_NsWinsOverNearerSoa ==
    NestedZones => IsReferral(Nearest(segs, "NS"))

\* C4, amended: the record set at the suffix with more labels wins. An SOA query that
\* matches both an SOA and an NS suffix is a referral to the NS records when the NS
\* suffix has strictly more labels, and the SOA records as an authoritative answer
\* otherwise; with SOA at a.b.example.com and NS at b.example.com the SOA wins.
C4_LongerSuffixWins ==
    (/\ Resolved
     /\ QTy = "SOA"
     /\ Holding(segs, "SOA") # {}
     /\ Holding(segs, "NS") # {})
    => IF Len(Nearest(segs, "NS")) > Len(Nearest(segs, "SOA"))
       THEN IsReferral(Nearest(segs, "NS"))
       ELSE IsAnswer(Nearest(segs, "SOA"), "SOA")

\* SOA at a name of four labels, NS at its parent, queried one label: the SOA was sent
C4_Witness ==
    /\ NestedZones
    /\ Len(Nearest(segs, "SOA")) = 4
    /\ IsAnswer(Nearest(segs, "SOA"), "SOA")

\* C5: a request that parses and has a question count other than 1, or whose one
\* question's name ends in a compression pointer, gets exactly one reply of 12 bytes:
\* NotImplemented, AA=1, the request's id, all four counts 0, no records; no lookup
\* was made for it.
C5_NotImplemented ==
    (/\ pc = "done"
     /\ parse(buf).ok
     /\ \/ parse(buf).val.header.qdcnt # 1
        \/ parse(buf).val.questions[1].name.ptr # <<>>)
    => /\ Len(sent) = 1
       /\ Len(Reply) = 12
       /\ ReplyId = <<buf[1], buf[2]>>
       /\ ReplyRcode = RcodeNotImpl
       /\ ReplyAA = 1
       /\ \A k \in 1..4 : ReplyCount(k) = 0
       /\ scope = <<>> /\ answers = <<>>

\* a request with two questions was answered NotImplemented over a zone with records
C5_Witness ==
    /\ pc = "done"
    /\ parsed # <<>>
    /\ Len(parsed[1].questions) = 2
    /\ DOMAIN storage # {}
    /\ Len(sent) = 1
    /\ ReplyRcode = RcodeNotImpl

\* the two flag bytes as a valid flag pair: an opcode of Query, IQuery or Status, and
\* AA, TC, RA, Z and RCODE all zero
FlagPairValid(b1, b2) ==
    /\ (b1 \div 8) % 16 \in {0, 1, 2}
    /\ (b1 \div 4) % 2 = 0
    /\ (b1 \div 2) % 2 = 0
    /\ b2 \div 128 = 0
    /\ (b2 \div 64) % 2 = 0
    /\ b2 % 16 = 0

\* C6: a datagram the decoder rejects gets exactly one reply, FormatError with the id
\* of its first two bytes, if and only if it has at least 4 bytes and a valid flag
\* pair in bytes 2..3; otherwise it gets none. No datagram gets more than one reply.
C6_DecodeFailure ==
    /\ Len(sent) <= 1
    /\ (pc = "done" /\ ~parse(buf).ok) =>
           IF Len(buf) >= 4 /\ FlagPairValid(buf[3], buf[4])
           THEN /\ Len(sent) = 1
                /\ ReplyRcode = RcodeFormat
                /\ ReplyId = <<buf[1], buf[2]>>
           ELSE sent = <<>>

\* a datagram cut inside its question was answered FormatError
C6_Witness ==
    /\ pc = "done"
    /\ ~parse(buf).ok
    /\ Len(buf) > 12
    /\ Len(sent) = 1
    /\ ReplyRcode = RcodeFormat

\* a rejected datagram of at least 4 bytes with an opcode above 2 was dropped
C6_WitnessDropped ==
    /\ pc = "done"
    /\ Len(buf) >= 12
    /\ (buf[3] \div 8) % 16 = 3
    /\ sent = <<>>

\* parse_name read all of wire and decoded exactly the labels of name, with no pointer
RoundTrip ==
    /\ decoded.ok
    /\ decoded.pos = Len(wire) + 1
    /\ decoded.val = [labels |-> name, ptr |-> <<>>]

\* C7 as claimed: every name whose labels have 1 to 255 bytes each (the length bytes
\* 1-255) is decoded, from the bytes serialize_name writes for it, to exactly its
\* labels, with all the bytes consumed and no pointer.
C7_RoundTripUpTo255 ==
    (cpc = "done" /\ \A i \in 1..Len(name) : Len(name[i]) \in 1..255) => RoundTrip

\* C7, amended: the same for every name whose labels have 1 to 191 bytes each (a
\* length byte of 192 or more is read as a compression pointer, and an empty label as
\* the end of the name).
C7_RoundTripUpTo191 ==
    (cpc = "done" /\ \A i \in 1..Len(name) : Len(name[i]) \in 1..191) => RoundTrip

\* a name of two labels, one of 191 bytes, went through the round trip
C7_Witness ==
    /\ cpc = "done"
    /\ Len(name) = 2
    /\ Len(name[1]) = 191
    /\ Len(name[2]) \in 1..191
    /\ RoundTrip

\* C8: step 3 replaces the scope and the answer set by the NS lookup's result if and
\* only if the requested type is SOA, the answer set after steps 1-2 is not empty and
\* the NS lookup matches a suffix with strictly more labels than the scope; in every
\* other case, and for every other requested type, it changes neither.
C8_NearerNsOverride ==
    [][pc = "nearer_ns" =>
          IF /\ QTy = "SOA"
             /\ answers # <<>>
             /\ \E s \in Holding(segs, "NS") : Len(s) > Len(scope)
          THEN /\ scope' = Nearest(segs, "NS")
               /\ answers' = RecordsAt(Nearest(segs, "NS"), "NS")
          ELSE /\ scope' = scope
               /\ answers' = answers]_vars

\* step 3 has replaced the SOA records of a shorter suffix by NS records
C8_Witness ==
    /\ pc = "authoritative"
    /\ QTy = "SOA"
    /\ Holding(segs, "SOA") # {}
    /\ answers # <<>>
    /\ answers[1].inner.type = "NS"
    /\ Len(scope) > Len(Nearest(segs, "SOA"))

\* step 3 has kept the SOA records where NS records lie at a suffix of the same length
C8_WitnessKept ==
    /\ pc = "authoritative"
    /\ QTy = "SOA"
    /\ answers # <<>>
    /\ answers[1].inner.type = "SOA"
    /\ RecordsAt(scope, "NS") # <<>>

\* what C9 says the first lookup returns, apart from the number of lookups
QueryResult ==
    /\ IF QTy \in {"NS", "SOA"}
       THEN IF Holding(segs, QTy) # {}
            THEN /\ scope = Nearest(segs, QTy)
                 /\ answers = RecordsAt(scope, QTy)
            ELSE /\ answers = <<>>
                 /\ segs # <<>> => scope # <<>>
       ELSE /\ scope = segs
            /\ answers = RecordsAt(segs, QTy)

\* the number of query_all calls of the first lookup
Lookups == query_walk(storage, segs, QTy, 1).calls

\* C9 as claimed: query makes at most |labels| lookups; for NS and SOA it returns the
\* longest suffix with at least one label that holds a record of the type and exactly
\* the records of that type stored there, or no record when no such suffix exists, and
\* never looks up the root after stripping a label; for every other type it returns
\* the full name and the records of the type stored under exactly that name.
C9_AtMostLenLookups ==
    pc = "self_cname" => (Lookups <= Len(segs) /\ QueryResult)

\* C9, amended: the same with at most max(1, |labels|) lookups (the name with no
\* label, the root, is looked up once).
C9_AncestorFallback ==
    pc = "self_cname" =>
        /\ Lookups <= (IF Len(segs) = 0 THEN 1 ELSE Len(segs))
        /\ QueryResult

\* an SOA lookup has stripped two labels and found the record
C9_Witness ==
    /\ pc = "self_cname"
    /\ QTy = "SOA"
    /\ Len(scope) = Len(segs) - 2
    /\ answers # <<>>
    /\ Lookups = 3

\* C10: once the answer set is non-empty after steps 1-2 it stays non-empty through
\* steps 3 and 4, and the reply's response code is OK, never NameError.
C10_AnswerNeverLost ==
    [][(pc \in {"nearer_ns", "authoritative", "respond"} /\ answers # <<>>) =>
          /\ answers' # <<>>
          /\ pc' = "done" => (Len(sent') = 1 /\ sent'[1][4] % 16 = RcodeOK)]_vars

\* an SOA answer was sent after an NS lookup that found no NS record at any suffix
C10_Witness ==
    /\ Resolved
    /\ QTy = "SOA"
    /\ Holding(segs, "NS") = {}
    /\ Holding(segs, "SOA") # {}
    /\ IsAnswer(Nearest(segs, "SOA"), "SOA")

====
